---- MODULE Spec2Model ----
(***************************************************************************)
(* Audience-signal fusion and feedback engine of not-kill-tony-hypercast:  *)
(* EmotionDetectionSystem, AudienceMetrics and PerformanceFeedbackSystem   *)
(* (src/unnamed/part_011, lines 879-1161).                                 *)
(*                                                                         *)
(* Numbers.  Intensities, confidences and probabilities are JavaScript     *)
(* numbers in [0, 1]; they are modelled exactly, in hundredths (0.7 is 70).*)
(* The type weights 1.5, 1.3, ... are modelled in tenths (15, 13, ...), so *)
(* a weighted score is in thousandths.  overallEngagement, a quotient, is  *)
(* the reduced fraction num/den of thousandths.  Times are milliseconds.   *)
(***************************************************************************)
EXTENDS Integers, Sequences, FiniteSets, TLC

\* ------------------------------------------------------------------ bounds
\* Number of processFrame calls that get past the currentPerformance test.
MaxFrames == 2
\* The clock Date.now() advances in steps of TickStep ms, MaxTicks times.
MaxTicks == 2
TickStep == 5000
\* Longest window a direct updateMetrics call may build (MetricsSpec).
MaxWindow == 4

\* --------------------------------------------------------------- constants
\* private readonly TREND_WINDOW = 10; // seconds
TREND_WINDOW == 10
\* if (confidence > 0.5), in hundredths
CONFIDENCE_THRESHOLD == 50
\* metrics.emotionIntensities.get('LAUGHTER')! > 0.7, in hundredths
LAUGHTER_THRESHOLD == 70

EmotionTypes == {"LAUGHTER", "APPLAUSE", "SILENCE", "DISAPPROVAL", "EXCITEMENT"}
Sources == {"audio", "video", "chat"}
Performers == {"p1", "p2"}
FrameIds == 1..MaxFrames

\* Outputs of emotionModel.predict: one probability per class (fixed order
\* LAUGHTER, APPLAUSE, SILENCE, DISAPPROVAL, EXCITEMENT), in hundredths.
\* 50 is the confidence threshold itself.
Predictions ==
  { <<90, 10, 60, 10, 10>>,
    <<50, 50, 50, 50, 50>> }

\* Class probabilities the chat analyzer derives from a batch of messages.
ChatPredictions ==
  { <<60, 10, 10, 10, 10>>,
    <<10, 10, 10, 10, 50>> }

\* Prediction rows fed to an AudienceMetrics instance on its own (MetricsSpec):
\* 70 is the pacing threshold itself; SILENCE and EXCITEMENT at 60 tie in
\* either insertion order.
MetricsPredictions ==
  { <<90, 10, 10, 10, 10>>,
    <<85, 10, 10, 10, 10>>,
    <<80, 10, 10, 10, 10>>,
    <<70, 10, 10, 10, 10>>,
    <<60, 10, 60, 10, 10>>,
    <<10, 10, 60, 10, 10>>,
    <<10, 10, 10, 10, 60>>,
    <<50, 50, 50, 50, 50>> }

VARIABLES
  now,                \* Date.now()
  modelState,         \* emotionModel: "loading" | "loaded" | "failed"
  currentPerformance, \* PerformanceFeedbackSystem.currentPerformance
  recentEmotions,     \* AudienceMetrics.recentEmotions (the window)
  metrics,            \* AudienceMetrics.metrics (the snapshot)
  frames,             \* the processFrame calls and their classification calls
  lastUpdate,         \* the value of `now` read by the last addToRecentEmotions
  fresh               \* no updateMetrics has run since startPerformanceTracking

vars == <<now, modelState, currentPerformance, recentEmotions, metrics,
          frames, lastUpdate, fresh>>

\* ----------------------------------------------------------------- helpers
RECURSIVE GCD(_, _)
GCD(a, b) == IF b = 0 THEN a ELSE GCD(b, a % b)

\* The quotient n / d (d > 0) as a reduced fraction.
Quot(n, d) == LET g == GCD(n, d) IN [num |-> n \div g, den |-> d \div g]

RECURSIVE SumIntensity(_)
SumIntensity(s) ==
  IF s = <<>> THEN 0 ELSE s[1].intensity + SumIntensity(Tail(s))

\* Array.prototype.slice(from) and slice(0, to), 0-based as in the code.
Slice(s, from, to) == SubSeq(s, from + 1, to)

NoPerformance == [performerId |-> "none", startTime |-> -1, emotions |-> <<>>]

\* ------------------------------------------------- EmotionDetectionSystem
mapIndexToEmotion(index) ==
  <<"LAUGHTER", "APPLAUSE", "SILENCE", "DISAPPROVAL", "EXCITEMENT">>[index + 1]

\* Mutant: the threshold test admits a confidence of exactly 0.5.
processEmotionPredictionsAtLeast(p, source, t) ==
  LET F[i \in 0..Len(p)] ==
        IF i = 0 THEN <<>>
        ELSE IF p[i] >= CONFIDENCE_THRESHOLD
             THEN Append(F[i - 1],
                         [type |-> mapIndexToEmotion(i - 1),
                          intensity |-> p[i],
                          timestamp |-> t,
                          source |-> source,
                          confidence |-> p[i]])
             ELSE F[i - 1]
  IN F[Len(p)]

\* Mutant: a single-winner classifier; only the most probable class can emit.
processEmotionPredictionsWinnerOnly(p, source, t) ==
  LET best == CHOOSE i \in 1..Len(p) : \A j \in 1..Len(p) : p[j] <= p[i]
  IN IF p[best] > CONFIDENCE_THRESHOLD
     THEN <<[type |-> mapIndexToEmotion(best - 1),
             intensity |-> p[best],
             timestamp |-> t,
             source |-> source,
             confidence |-> p[best]]>>
     ELSE <<>>

\* processEmotionPredictions run at time t on the prediction row p.
processEmotionPredictions(p, source, t) ==
  LET F[i \in 0..Len(p)] ==
        IF i = 0 THEN <<>>
        ELSE IF p[i] > CONFIDENCE_THRESHOLD
             THEN Append(F[i - 1],
                         [type |-> mapIndexToEmotion(i - 1),
                          intensity |-> p[i],
                          timestamp |-> t,
                          source |-> source,
                          confidence |-> p[i]])
             ELSE F[i - 1]
  IN F[Len(p)]

\* ChatAnalyzer.analyzeEmotions: the adapter contract of the specification
\* (one event per class whose probability exceeds 0.5).
analyzeEmotions(p, t) ==
  LET F[i \in 0..Len(p)] ==
        IF i = 0 THEN <<>>
        ELSE IF p[i] > CONFIDENCE_THRESHOLD
             THEN Append(F[i - 1],
                         [type |-> mapIndexToEmotion(i - 1),
                          intensity |-> p[i],
                          timestamp |-> t,
                          source |-> "chat",
                          confidence |-> p[i]])
             ELSE F[i - 1]
  IN F[Len(p)]

\* ---------------------------------------------------------- AudienceMetrics
InitialMetrics ==
  [overallEngagement |-> Quot(0, 1),
   dominantEmotion |-> "SILENCE",
   emotionIntensities |-> <<>>,
   recentTrend |-> "stable",
   audienceSize |-> 0]

\* Mutant: only the events already held are filtered, the new ones are kept.
addToRecentEmotionsOldOnly(window, emotions, t) ==
  SelectSeq(window, LAMBDA e : t - e.timestamp < TREND_WINDOW * 1000) \o emotions

\* Mutant: an event exactly 10000 ms old is retained.
addToRecentEmotionsInclusive(window, emotions, t) ==
  SelectSeq(window \o emotions, LAMBDA e : t - e.timestamp <= TREND_WINDOW * 1000)

\* [...recentEmotions, ...emotions].filter(e => now - e.timestamp < 10 * 1000)
addToRecentEmotions(window, emotions, t) ==
  SelectSeq(window \o emotions, LAMBDA e : t - e.timestamp < TREND_WINDOW * 1000)

\* Mutant: the weights of SILENCE and DISAPPROVAL are exchanged.
typeWeightSwapped(type) ==
  CASE type = "LAUGHTER" -> 15
    [] type = "APPLAUSE" -> 13
    [] type = "EXCITEMENT" -> 12
    [] type = "SILENCE" -> 7
    [] type = "DISAPPROVAL" -> 5
    [] OTHER -> 10

\* Mutant: the weights of LAUGHTER and SILENCE are exchanged.
typeWeightLaughterLow(type) ==
  CASE type = "LAUGHTER" -> 5
    [] type = "APPLAUSE" -> 13
    [] type = "EXCITEMENT" -> 12
    [] type = "SILENCE" -> 15
    [] type = "DISAPPROVAL" -> 7
    [] OTHER -> 10

\* The switch of calculateEngagement, in tenths.
typeWeight(type) ==
  CASE type = "LAUGHTER" -> 15
    [] type = "APPLAUSE" -> 13
    [] type = "EXCITEMENT" -> 12
    [] type = "SILENCE" -> 5
    [] type = "DISAPPROVAL" -> 7
    [] OTHER -> 10

RECURSIVE SumScores(_)
SumScores(s) ==
  IF s = <<>> THEN 0
  ELSE s[1].intensity * typeWeight(s[1].type) + SumScores(Tail(s))

calculateEngagement(window) ==
  IF Len(window) = 0 THEN Quot(0, 1)
  ELSE Quot(SumScores(window), Len(window))

\* A JavaScript Map as the sequence of its entries in insertion order.
MapHas(m, k) == \E i \in 1..Len(m) : m[i].key = k
MapGet(m, k) == m[CHOOSE i \in 1..Len(m) : m[i].key = k].value
MapSet(m, k, v) ==
  IF MapHas(m, k)
  THEN [i \in 1..Len(m) |-> IF m[i].key = k THEN [key |-> k, value |-> v] ELSE m[i]]
  ELSE Append(m, [key |-> k, value |-> v])

\* Mutant: the type weight is applied to the accumulated intensity.
RECURSIVE countEmotionsWeighted(_, _)
countEmotionsWeighted(window, counts) ==
  IF window = <<>> THEN counts
  ELSE LET e == Head(window)
           current == IF MapHas(counts, e.type) THEN MapGet(counts, e.type) ELSE 0
       IN countEmotionsWeighted(Tail(window),
            MapSet(counts, e.type,
                   current + (e.intensity * typeWeight(e.type)) \div 10))

\* Mutant: an entry is overwritten by the intensity of the latest event of its
\* type instead of accumulating.
RECURSIVE countEmotionsLastWins(_, _)
countEmotionsLastWins(window, counts) ==
  IF window = <<>> THEN counts
  ELSE LET e == Head(window)
       IN countEmotionsLastWins(Tail(window), MapSet(counts, e.type, e.intensity))

\* The forEach over recentEmotions that fills emotionCounts.
RECURSIVE countEmotions(_, _)
countEmotions(window, counts) ==
  IF window = <<>> THEN counts
  ELSE LET e == Head(window)
           current == IF MapHas(counts, e.type) THEN MapGet(counts, e.type) ELSE 0
       IN countEmotions(Tail(window), MapSet(counts, e.type, current + e.intensity))

emotionCounts(window) == countEmotions(window, <<>>)

\* Mutant: an entry also replaces the current choice when its count is equal.
RECURSIVE scanMaxOrEqual(_, _, _)
scanMaxOrEqual(counts, maxCount, dominantEmotion) ==
  IF counts = <<>> THEN dominantEmotion
  ELSE IF Head(counts).value >= maxCount
       THEN scanMaxOrEqual(Tail(counts), Head(counts).value, Head(counts).key)
       ELSE scanMaxOrEqual(Tail(counts), maxCount, dominantEmotion)

\* The forEach over emotionCounts: an entry replaces the current choice only
\* when its count is strictly greater than maxCount.
RECURSIVE scanMax(_, _, _)
scanMax(counts, maxCount, dominantEmotion) ==
  IF counts = <<>> THEN dominantEmotion
  ELSE IF Head(counts).value > maxCount
       THEN scanMax(Tail(counts), Head(counts).value, Head(counts).key)
       ELSE scanMax(Tail(counts), maxCount, dominantEmotion)

\* Mutant: maxCount starts at 1 instead of 0.
dominantOfFromOne(counts, previous) == scanMax(counts, 100, previous)

\* Mutant: dominantEmotion restarts from SILENCE at every computation.
dominantOfFromSilence(counts, previous) == scanMax(counts, 0, "SILENCE")

\* Mutant: an empty map of counts resets dominantEmotion to SILENCE.
dominantOfEmptyIsSilence(counts, previous) ==
  IF counts = <<>> THEN "SILENCE" ELSE scanMax(counts, 0, previous)

\* maxCount starts at 0 and dominantEmotion at its previous value.
dominantOf(counts, previous) == scanMax(counts, 0, previous)

\* Mutant: windowSize is half the number of events in the window.
calculateTrendByLength(window) ==
  LET windowSize == Len(window) \div 2
      midpoint == Len(window) \div 2
      firstHalf == SumIntensity(Slice(window, 0, midpoint))
      secondHalf == SumIntensity(Slice(window, midpoint, Len(window)))
      difference == secondHalf - firstHalf
      threshold == windowSize * 10
  IN IF difference > threshold THEN "rising"
     ELSE IF difference < -threshold THEN "falling"
     ELSE "stable"

\* Mutant: the midpoint is rounded up, so the extra element of an odd-length
\* window goes to the first part.
calculateTrendCeilMidpoint(window) ==
  LET windowSize == TREND_WINDOW \div 2
      midpoint == (Len(window) + 1) \div 2
      firstHalf == SumIntensity(Slice(window, 0, midpoint))
      secondHalf == SumIntensity(Slice(window, midpoint, Len(window)))
      difference == secondHalf - firstHalf
      threshold == windowSize * 10
  IN IF difference > threshold THEN "rising"
     ELSE IF difference < -threshold THEN "falling"
     ELSE "stable"

calculateTrend(window) ==
  LET windowSize == TREND_WINDOW \div 2
      midpoint == Len(window) \div 2
      firstHalf == SumIntensity(Slice(window, 0, midpoint))
      secondHalf == SumIntensity(Slice(window, midpoint, Len(window)))
      difference == secondHalf - firstHalf
      \* windowSize * 0.1 in hundredths
      threshold == windowSize * 10
  IN IF difference > threshold THEN "rising"
     ELSE IF difference < -threshold THEN "falling"
     ELSE "stable"

\* Mutant: dominance and intensities are computed before pruning, over the old
\* window and the new events.
updateMetricsCountingPruned(window, m, newEmotions, t) ==
  LET w == addToRecentEmotions(window, newEmotions, t)
      counts == emotionCounts(window \o newEmotions)
  IN [window |-> w,
      metrics |-> [overallEngagement |-> calculateEngagement(w),
                   dominantEmotion |-> dominantOf(counts, m.dominantEmotion),
                   emotionIntensities |-> counts,
                   recentTrend |-> calculateTrend(w),
                   audienceSize |-> m.audienceSize]]

\* Mutant: the update also stores the number of events of the window as the
\* audience size.
updateMetricsCountingAudience(window, m, newEmotions, t) ==
  LET w == addToRecentEmotions(window, newEmotions, t)
      counts == emotionCounts(w)
  IN [window |-> w,
      metrics |-> [overallEngagement |-> calculateEngagement(w),
                   dominantEmotion |-> dominantOf(counts, m.dominantEmotion),
                   emotionIntensities |-> counts,
                   recentTrend |-> calculateTrend(w),
                   audienceSize |-> Len(w)]]

\* updateMetrics: the new window and the new snapshot.
updateMetrics(window, m, newEmotions, t) ==
  LET w == addToRecentEmotions(window, newEmotions, t)
      counts == emotionCounts(w)
  IN [window |-> w,
      metrics |-> [overallEngagement |-> calculateEngagement(w),
                   dominantEmotion |-> dominantOf(counts, m.dominantEmotion),
                   emotionIntensities |-> counts,
                   recentTrend |-> calculateTrend(w),
                   audienceSize |-> m.audienceSize]]

\* -------------------------------------------------- PerformanceFeedbackSystem
\* Mutant: the comparison with 0.7 is not strict.
shouldAdjustTimingAtLeast(m) ==
  /\ m.dominantEmotion = "LAUGHTER"
  /\ MapHas(m.emotionIntensities, "LAUGHTER")
  /\ MapGet(m.emotionIntensities, "LAUGHTER") >= LAUGHTER_THRESHOLD

\* Mutant: a missing LAUGHTER entry no longer gives false (the non-null
\* assertion taken as a guarantee): only a present entry is compared with 0.7.
shouldAdjustTimingEntryAssumed(m) ==
  /\ m.dominantEmotion = "LAUGHTER"
  /\ MapHas(m.emotionIntensities, "LAUGHTER") =>
       MapGet(m.emotionIntensities, "LAUGHTER") > LAUGHTER_THRESHOLD

\* undefined > 0.7 is false: a missing LAUGHTER entry gives false.
shouldAdjustTiming(m) ==
  /\ m.dominantEmotion = "LAUGHTER"
  /\ MapHas(m.emotionIntensities, "LAUGHTER")
  /\ MapGet(m.emotionIntensities, "LAUGHTER") > LAUGHTER_THRESHOLD

IdleCall == [st |-> "idle", events |-> <<>>]
RunningCall == [st |-> "running", events |-> <<>>]
FreeFrame == [state |-> "free", audio |-> IdleCall, video |-> IdleCall, chat |-> IdleCall]
SettledFrame(state) ==
  [state |-> state, audio |-> IdleCall, video |-> IdleCall, chat |-> IdleCall]

Init ==
  /\ now = 0
  /\ modelState = "loading"
  /\ currentPerformance = NoPerformance
  /\ recentEmotions = <<>>
  /\ metrics = InitialMetrics
  /\ frames = [f \in FrameIds |-> FreeFrame]
  /\ lastUpdate = -1
  /\ fresh = FALSE

\* Mutant: the window is pruned and the snapshot recomputed as time passes.
TickPruning ==
  /\ now < MaxTicks * TickStep
  /\ now' = now + TickStep
  /\ LET u == updateMetrics(recentEmotions, metrics, <<>>, now + TickStep)
     IN /\ recentEmotions' = u.window
        /\ metrics' = u.metrics
  /\ UNCHANGED <<modelState, currentPerformance, frames, lastUpdate, fresh>>

\* Time passes.
Tick ==
  /\ now < MaxTicks * TickStep
  /\ now' = now + TickStep
  /\ UNCHANGED <<modelState, currentPerformance, recentEmotions, metrics,
                 frames, lastUpdate, fresh>>

\* initializeEmotionModel: tf.loadLayersModel resolves.
ModelLoaded ==
  /\ modelState = "loading"
  /\ modelState' = "loaded"
  /\ UNCHANGED <<now, currentPerformance, recentEmotions, metrics, frames,
                 lastUpdate, fresh>>

\* initializeEmotionModel: tf.loadLayersModel rejects; emotionModel stays unset.
ModelLoadFailed ==
  /\ modelState = "loading"
  /\ modelState' = "failed"
  /\ UNCHANGED <<now, currentPerformance, recentEmotions, metrics, frames,
                 lastUpdate, fresh>>

startPerformanceTracking(performerId) ==
  /\ currentPerformance' =
       [performerId |-> performerId, startTime |-> now, emotions |-> <<>>]
  /\ fresh' = TRUE
  /\ UNCHANGED <<now, modelState, recentEmotions, metrics, frames, lastUpdate>>

\* Mutant: without the early return a frame submitted before any session is
\* classified and handed to updateMetrics.
processFrameNoPerformanceUpdating ==
  /\ currentPerformance = NoPerformance
  /\ modelState = "loaded"
  /\ \E p \in Predictions :
       LET u == updateMetrics(recentEmotions, metrics,
                              processEmotionPredictions(p, "audio", now), now)
       IN /\ recentEmotions' = u.window
          /\ metrics' = u.metrics
  /\ UNCHANGED <<now, modelState, currentPerformance, frames, lastUpdate, fresh>>

\* processFrame without a current performance: the early return.
processFrameNoPerformance ==
  /\ currentPerformance = NoPerformance
  /\ UNCHANGED vars

\* processFrame up to the await: the three classification calls are started.
processFrameBegin(f) ==
  /\ currentPerformance # NoPerformance
  /\ frames[f].state = "free"
  /\ \A g \in FrameIds : g < f => frames[g].state # "free"
  /\ frames' = [frames EXCEPT ![f] =
       [state |-> "pending", audio |-> RunningCall, video |-> RunningCall,
        chat |-> RunningCall]]
  /\ UNCHANGED <<now, modelState, currentPerformance, recentEmotions, metrics,
                 lastUpdate, fresh>>

\* Mutant: the lists are concatenated with the chat events first.
allEmotionsChatFirst(f) ==
  frames[f].chat.events \o frames[f].audio.events \o frames[f].video.events

\* The events of the classification calls of frame f, in the order of the
\* array handed to Promise.all.
allEmotions(f) ==
  frames[f].audio.events \o frames[f].video.events \o frames[f].chat.events

\* Mutant: a failed call no longer aborts the frame's effect; the events of the
\* calls that have returned are merged (a settle-all join).
classificationFailsMerging(f, source) ==
  /\ frames[f].state = "pending"
  /\ frames[f][source].st = "running"
  /\ LET u == updateMetrics(recentEmotions, metrics, allEmotions(f), now)
     IN /\ currentPerformance' =
             [currentPerformance EXCEPT !.emotions = @ \o allEmotions(f)]
        /\ recentEmotions' = u.window
        /\ metrics' = u.metrics
  /\ frames' = [frames EXCEPT ![f] = SettledFrame("rejected")]
  /\ UNCHANGED <<now, modelState, lastUpdate, fresh>>

\* Mutant: the join settles only when every call has settled; a failure is
\* reported once no other call of the frame is running.
classificationFailsWaiting(f, source) ==
  /\ frames[f].state = "pending"
  /\ frames[f][source].st = "running"
  /\ \A other \in Sources \ {source} : frames[f][other].st # "running"
  /\ frames' = [frames EXCEPT ![f] = SettledFrame("rejected")]
  /\ UNCHANGED <<now, modelState, currentPerformance, recentEmotions, metrics,
                 lastUpdate, fresh>>

\* Mutant: a failed call makes processFrame issue the frame's three
\* classification calls again instead of throwing.
classificationFailsRetrying(f, source) ==
  /\ frames[f].state = "pending"
  /\ frames[f][source].st = "running"
  /\ frames' = [frames EXCEPT ![f] =
       [state |-> "pending", audio |-> RunningCall, video |-> RunningCall,
        chat |-> RunningCall]]
  /\ UNCHANGED <<now, modelState, currentPerformance, recentEmotions, metrics,
                 lastUpdate, fresh>>

\* A classification call of a pending frame fails (extractFeatures, predict or
\* analyzeEmotions rejects): Promise.all rejects with this first failure and
\* processFrame throws at its await, so the statements after it never run.
\* What the other calls of the frame return later is dropped.
classificationFails(f, source) ==
  /\ frames[f].state = "pending"
  /\ frames[f][source].st = "running"
  /\ frames' = [frames EXCEPT ![f] = SettledFrame("rejected")]
  /\ UNCHANGED <<now, modelState, currentPerformance, recentEmotions, metrics,
                 lastUpdate, fresh>>

\* Mutant: predict succeeds whether or not the model has been loaded.
streamReturnsWithoutModel(f, source) ==
  /\ frames[f].state = "pending"
  /\ frames[f][source].st = "running"
  /\ \E p \in Predictions :
       frames' = [frames EXCEPT ![f][source] =
         [st |-> "ok", events |-> processEmotionPredictions(p, source, now)]]
  /\ UNCHANGED <<now, modelState, currentPerformance, recentEmotions, metrics,
                 lastUpdate, fresh>>

\* processAudioStream / processVideoStream return: predict needs the loaded
\* model; its row becomes events stamped with the current time.
streamReturns(f, source) ==
  /\ frames[f].state = "pending"
  /\ frames[f][source].st = "running"
  /\ modelState = "loaded"
  /\ \E p \in Predictions :
       frames' = [frames EXCEPT ![f][source] =
         [st |-> "ok", events |-> processEmotionPredictions(p, source, now)]]
  /\ UNCHANGED <<now, modelState, currentPerformance, recentEmotions, metrics,
                 lastUpdate, fresh>>

processAudioStream(f) == streamReturns(f, "audio")

processVideoStream(f) == streamReturns(f, "video")

processChatMessages(f) ==
  /\ frames[f].state = "pending"
  /\ frames[f].chat.st = "running"
  /\ \E p \in ChatPredictions :
       frames' = [frames EXCEPT ![f].chat =
         [st |-> "ok", events |-> analyzeEmotions(p, now)]]
  /\ UNCHANGED <<now, modelState, currentPerformance, recentEmotions, metrics,
                 lastUpdate, fresh>>

\* Mutant: the update is interrupted after the append and the pruning; the
\* snapshot is not recomputed in the same step.
processFrameResolvedWindowOnly(f) ==
  /\ frames[f].state = "pending"
  /\ frames[f].audio.st = "ok"
  /\ frames[f].video.st = "ok"
  /\ frames[f].chat.st = "ok"
  /\ currentPerformance' =
       [currentPerformance EXCEPT !.emotions = @ \o allEmotions(f)]
  /\ recentEmotions' = addToRecentEmotions(recentEmotions, allEmotions(f), now)
  /\ frames' = [frames EXCEPT ![f] = SettledFrame("resolved")]
  /\ lastUpdate' = now
  /\ fresh' = FALSE
  /\ UNCHANGED <<now, modelState, metrics>>

\* Mutant: the history is replaced by the frame's events instead of extended.
processFrameResolvedOverwriting(f) ==
  /\ frames[f].state = "pending"
  /\ frames[f].audio.st = "ok"
  /\ frames[f].video.st = "ok"
  /\ frames[f].chat.st = "ok"
  /\ LET u == updateMetrics(recentEmotions, metrics, allEmotions(f), now)
     IN /\ currentPerformance' =
             [currentPerformance EXCEPT !.emotions = allEmotions(f)]
        /\ recentEmotions' = u.window
        /\ metrics' = u.metrics
  /\ frames' = [frames EXCEPT ![f] = SettledFrame("resolved")]
  /\ lastUpdate' = now
  /\ fresh' = FALSE
  /\ UNCHANGED <<now, modelState>>

\* Mutant: a frame without events returns before the aggregator update.
processFrameResolvedSkippingEmpty(f) ==
  /\ frames[f].state = "pending"
  /\ frames[f].audio.st = "ok"
  /\ frames[f].video.st = "ok"
  /\ frames[f].chat.st = "ok"
  /\ LET u == IF allEmotions(f) = <<>>
              THEN [window |-> recentEmotions, metrics |-> metrics]
              ELSE updateMetrics(recentEmotions, metrics, allEmotions(f), now)
     IN /\ currentPerformance' =
             [currentPerformance EXCEPT !.emotions = @ \o allEmotions(f)]
        /\ recentEmotions' = u.window
        /\ metrics' = u.metrics
  /\ frames' = [frames EXCEPT ![f] = SettledFrame("resolved")]
  /\ lastUpdate' = now
  /\ fresh' = FALSE
  /\ UNCHANGED <<now, modelState>>

\* Promise.all resolves: the statements after the await.
processFrameResolved(f) ==
  /\ frames[f].state = "pending"
  /\ frames[f].audio.st = "ok"
  /\ frames[f].video.st = "ok"
  /\ frames[f].chat.st = "ok"
  /\ LET u == updateMetrics(recentEmotions, metrics, allEmotions(f), now)
     IN /\ currentPerformance' =
             [currentPerformance EXCEPT !.emotions = @ \o allEmotions(f)]
        /\ recentEmotions' = u.window
        /\ metrics' = u.metrics
  /\ frames' = [frames EXCEPT ![f] = SettledFrame("resolved")]
  /\ lastUpdate' = now
  /\ fresh' = FALSE
  /\ UNCHANGED <<now, modelState>>

\* Mutant: the read waits for the processFrame calls that are suspended.
getRealtimeMetricsAfterFrames ==
  /\ \A f \in FrameIds : frames[f].state # "pending"
  /\ UNCHANGED vars

\* getRealtimeMetrics returns `metrics`; it assigns nothing.
getRealtimeMetrics ==
  UNCHANGED vars

\* shouldAdjustTiming returns shouldAdjustTiming(metrics); it assigns nothing.
shouldAdjustTimingCall ==
  UNCHANGED vars

Next ==
  \/ Tick
  \/ ModelLoaded
  \/ ModelLoadFailed
  \/ \E p \in Performers : startPerformanceTracking(p)
  \/ processFrameNoPerformance
  \/ \E f \in FrameIds : processFrameBegin(f)
  \/ \E f \in FrameIds, s \in Sources : classificationFails(f, s)
  \/ \E f \in FrameIds : processAudioStream(f)
  \/ \E f \in FrameIds : processVideoStream(f)
  \/ \E f \in FrameIds : processChatMessages(f)
  \/ \E f \in FrameIds : processFrameResolved(f)
  \/ getRealtimeMetrics
  \/ shouldAdjustTimingCall

Spec == Init /\ [][Next]_vars

\* An AudienceMetrics instance on its own: updateMetrics is called with the
\* events processEmotionPredictions makes of one prediction row.
updateMetricsCall(p) ==
  LET newEmotions == processEmotionPredictions(p, "audio", now)
      u == updateMetrics(recentEmotions, metrics, newEmotions, now)
  IN /\ Len(recentEmotions) + Len(newEmotions) <= MaxWindow
     /\ recentEmotions' = u.window
     /\ metrics' = u.metrics
     /\ lastUpdate' = now
     /\ UNCHANGED <<now, modelState, currentPerformance, frames, fresh>>

MetricsNext ==
  \/ Tick
  \/ \E p \in MetricsPredictions : updateMetricsCall(p)
  \/ getRealtimeMetrics
  \/ shouldAdjustTimingCall

MetricsSpec == Init /\ [][MetricsNext]_vars

\* A classification call of frame f on one channel completes: it returns or
\* it fails.
callCompletes(f, source) ==
  \/ classificationFails(f, source)
  \/ IF source = "chat" THEN processChatMessages(f) ELSE streamReturns(f, source)

\* The frame's part of the step processFrameResolved(f): the continuation of
\* processFrame after the await.  The steps of Next that satisfy it are exactly
\* the steps processFrameResolved(f), and a step of it that changes frames is
\* possible exactly when processFrameResolved(f) is enabled.
joinResumes(f) ==
  /\ frames[f].state = "pending"
  /\ frames[f].audio.st = "ok"
  /\ frames[f].video.st = "ok"
  /\ frames[f].chat.st = "ok"
  /\ frames' = [frames EXCEPT ![f] = SettledFrame("resolved")]

\* The whole system under the scheduling the code relies on: every
\* classification call that is running eventually completes (the proviso of
\* the completion guarantee), and the continuation of a processFrame whose
\* Promise.all has resolved is eventually run by the event loop.
FairSpec ==
  /\ Spec
  /\ \A f \in FrameIds, source \in Sources : WF_vars(callCompletes(f, source))
  /\ \A f \in FrameIds : WF_frames(joinResumes(f))

\* ==================================================================== claims
\* What the claims are stated with: sums over index sets of the window, and the
\* entry of a type in a snapshot's emotionIntensities.
RECURSIVE SumAt(_, _)
SumAt(w, I) ==
  IF I = {} THEN 0
  ELSE LET i == CHOOSE j \in I : TRUE IN w[i].intensity + SumAt(w, I \ {i})

IndicesOf(w, type) == {i \in 1..Len(w) : w[i].type = type}
RawSum(w, type) == SumAt(w, IndicesOf(w, type))
FirstIndex(w, type) == CHOOSE i \in IndicesOf(w, type) : \A j \in IndicesOf(w, type) : i <= j
EntriesOf(m, type) ==
  {i \in 1..Len(m.emotionIntensities) : m.emotionIntensities[i].key = type}
History == currentPerformance.emotions
AllEvents(w) == {w[i] : i \in 1..Len(w)}
InFlightEvents ==
  UNION {AllEvents(frames[f].audio.events) \cup AllEvents(frames[f].video.events)
           \cup AllEvents(frames[f].chat.events) : f \in FrameIds}
Rejects(f) == frames[f].state = "pending" /\ frames'[f].state = "rejected"
Resolves(f) == frames[f].state = "pending" /\ frames'[f].state = "resolved"

\* C1: a processFrame call one of whose classification calls fails changes
\* neither the window, nor the history, nor the snapshot, nor the result of
\* shouldAdjustTiming; window and snapshot change only in the step in which a
\* frame's join succeeds.
C1_FailedFrameHasNoEffect ==
  [][/\ \A f \in FrameIds :
          Rejects(f) =>
            /\ recentEmotions' = recentEmotions
            /\ currentPerformance' = currentPerformance
            /\ metrics' = metrics
            /\ shouldAdjustTiming(metrics') = shouldAdjustTiming(metrics)
     /\ (recentEmotions' # recentEmotions \/ metrics' # metrics) =>
          \E f \in FrameIds : Resolves(f)]_vars

\* A frame was rejected while the window held events of an earlier frame.
C1_Witness ==
  /\ frames[1].state = "resolved"
  /\ frames[2].state = "rejected"
  /\ recentEmotions # <<>>
  /\ History # <<>>

\* C2: after an update at time T every event of the window has
\* T - timestamp < 10000 ms, the events submitted in that update included.
C2_WindowRetention ==
  lastUpdate >= 0 =>
    \A i \in 1..Len(recentEmotions) :
      lastUpdate - recentEmotions[i].timestamp < 10000

\* The only update so far dropped an event it was itself given (the event is in
\* the history, 10000 ms old at the update) and kept another.
C2_Witness ==
  /\ frames[1].state = "resolved"
  /\ frames[2].state = "free"
  /\ recentEmotions # <<>>
  /\ \E i \in 1..Len(History) : lastUpdate - History[i].timestamp >= 10000

\* C3: no event with confidence <= 0.5 is returned by a classification call of
\* any channel, nor is one in the window or in the history.
C3_ConfidenceAboveThreshold ==
  \A e \in InFlightEvents \cup AllEvents(recentEmotions) \cup AllEvents(History) :
    e.confidence > 50

\* An audio call returned no event (its row is at the threshold in every
\* class) while events of the other channels made it into the window.
C3_Witness ==
  /\ \E f \in FrameIds : frames[f].audio.st = "ok" /\ frames[f].audio.events = <<>>
  /\ \E i \in 1..Len(recentEmotions) : recentEmotions[i].source = "video"
  /\ \E i \in 1..Len(recentEmotions) : recentEmotions[i].source = "chat"

\* C4: shouldAdjustTiming is true iff dominantEmotion = LAUGHTER and the
\* LAUGHTER entry of emotionIntensities is > 0.7; it is false without such an
\* entry and before any update.
C4_DecisionRule ==
  /\ shouldAdjustTiming(metrics) <=>
       /\ metrics.dominantEmotion = "LAUGHTER"
       /\ \E i \in EntriesOf(metrics, "LAUGHTER") :
            metrics.emotionIntensities[i].value > 70
  /\ EntriesOf(metrics, "LAUGHTER") = {} => ~shouldAdjustTiming(metrics)
  /\ lastUpdate = -1 => ~shouldAdjustTiming(metrics)

\* LAUGHTER is dominant with an accumulated intensity of exactly 0.7.
C4_Witness ==
  /\ metrics.dominantEmotion = "LAUGHTER"
  /\ \E i \in EntriesOf(metrics, "LAUGHTER") :
       metrics.emotionIntensities[i].value = 70
  /\ ~shouldAdjustTiming(metrics)

\* C5: between startPerformanceTracking and the first update that follows it,
\* the snapshot is the empty default (engagement 0, SILENCE, stable).
C5_FreshSessionDefault ==
  fresh =>
    /\ metrics.overallEngagement = Quot(0, 1)
    /\ metrics.dominantEmotion = "SILENCE"
    /\ metrics.recentTrend = "stable"

\* C6: the window of the current performance holds only events processed for
\* that performance, i.e. events of its history.
C6_SessionIsolation ==
  currentPerformance # NoPerformance =>
    AllEvents(recentEmotions) \subseteq AllEvents(History)

\* C7: emotionIntensities has, for each type, the sum of the raw intensities of
\* the window's events of that type, and no entry for a type without events.
C7_RawIntensities ==
  \A type \in EmotionTypes :
    /\ Cardinality(EntriesOf(metrics, type)) =
         IF IndicesOf(recentEmotions, type) = {} THEN 0 ELSE 1
    /\ \A i \in EntriesOf(metrics, type) :
         metrics.emotionIntensities[i].value = RawSum(recentEmotions, type)

\* Two types are in the window, one of them with several events.
C7_Witness ==
  /\ Len(metrics.emotionIntensities) >= 2
  /\ \E type \in EmotionTypes : Cardinality(IndicesOf(recentEmotions, type)) >= 2

\* The weights C8 names, in tenths.
ClaimedWeight(type) ==
  CASE type = "LAUGHTER" -> 15
    [] type = "APPLAUSE" -> 13
    [] type = "EXCITEMENT" -> 12
    [] type = "SILENCE" -> 5
    [] type = "DISAPPROVAL" -> 7

RECURSIVE WeightedTotal(_, _)
WeightedTotal(w, T) ==
  IF T = {} THEN 0
  ELSE LET type == CHOOSE x \in T : TRUE
       IN ClaimedWeight(type) * RawSum(w, type) + WeightedTotal(w, T \ {type})

\* C8: overallEngagement is the mean over the window of intensity x typeWeight,
\* and 0 for an empty window.
C8_EngagementIsWeightedMean ==
  IF recentEmotions = <<>>
  THEN metrics.overallEngagement.num = 0
  ELSE metrics.overallEngagement.num * Len(recentEmotions) =
         metrics.overallEngagement.den * WeightedTotal(recentEmotions, EmotionTypes)

\* A window of one LAUGHTER event of 0.9 and two SILENCE events of 0.6 after an
\* update: the mean of 1.35, 0.3 and 0.3 is 0.65.
C8_Witness ==
  /\ Len(recentEmotions) = 3
  /\ RawSum(recentEmotions, "LAUGHTER") = 90
  /\ RawSum(recentEmotions, "SILENCE") = 120
  /\ metrics.overallEngagement = [num |-> 650, den |-> 1]

MaxRawSum(w) ==
  CHOOSE x \in {RawSum(w, type) : type \in EmotionTypes} :
    \A type \in EmotionTypes : RawSum(w, type) <= x

\* C9: with a non-empty window, dominantEmotion is a type of maximal
\* accumulated raw intensity, and among several such types the one whose first
\* event is earliest in the window.
C9_DominantIsFirstMaximum ==
  recentEmotions # <<>> =>
    LET d == metrics.dominantEmotion
    IN /\ IndicesOf(recentEmotions, d) # {}
       /\ RawSum(recentEmotions, d) = MaxRawSum(recentEmotions)
       /\ \A type \in EmotionTypes \ {d} :
            RawSum(recentEmotions, type) = MaxRawSum(recentEmotions) =>
              FirstIndex(recentEmotions, d) < FirstIndex(recentEmotions, type)

\* EXCITEMENT and SILENCE tie for the maximum and EXCITEMENT, the later class
\* but the earlier in the window, is dominant.
C9_Witness ==
  /\ metrics.dominantEmotion = "EXCITEMENT"
  /\ RawSum(recentEmotions, "SILENCE") = MaxRawSum(recentEmotions)
  /\ RawSum(recentEmotions, "EXCITEMENT") = MaxRawSum(recentEmotions)

TrendDifference(w) ==
  SumAt(w, {i \in 1..Len(w) : i > Len(w) \div 2})
    - SumAt(w, {i \in 1..Len(w) : i <= Len(w) \div 2})

\* C10: trend is rising iff the positional difference is > 0.5, falling iff it
\* is < -0.5, stable otherwise, whatever the number of events.
C10_TrendThreshold ==
  LET difference == TrendDifference(recentEmotions)
  IN /\ metrics.recentTrend = "rising" <=> difference > 50
     /\ metrics.recentTrend = "falling" <=> difference < -50
     /\ metrics.recentTrend = "stable" <=> (difference <= 50 /\ difference >= -50)

\* Four events, the first two outweighing the last two by more than 0.5.
C10_Witness ==
  /\ Len(recentEmotions) = 4
  /\ TrendDifference(recentEmotions) < -50
  /\ metrics.recentTrend = "falling"

\* C11: once an update has left at least one event in the window, every entry
\* of emotionIntensities is the sum over surviving events of its type only, and
\* dominantEmotion is the type of some surviving event, whatever was pruned.
C11_PrunedEventsHaveNoInfluence ==
  recentEmotions # <<>> =>
    /\ \A i \in 1..Len(metrics.emotionIntensities) :
         LET entry == metrics.emotionIntensities[i]
         IN /\ IndicesOf(recentEmotions, entry.key) # {}
            /\ entry.value = RawSum(recentEmotions, entry.key)
    /\ \E i \in 1..Len(recentEmotions) :
         recentEmotions[i].type = metrics.dominantEmotion

\* A SILENCE event and a LAUGHTER event of 0.9 were pruned (they are in the
\* history, 10000 ms old at the last update); a chat LAUGHTER event of 0.6
\* survives: emotionIntensities has no SILENCE entry and LAUGHTER is 0.6.
C11_Witness ==
  /\ \E i \in 1..Len(History) :
       History[i].type = "SILENCE" /\ lastUpdate - History[i].timestamp >= 10000
  /\ recentEmotions # <<>>
  /\ EntriesOf(metrics, "SILENCE") = {}
  /\ \E i \in EntriesOf(metrics, "LAUGHTER") : metrics.emotionIntensities[i].value = 60
  /\ metrics.dominantEmotion = "LAUGHTER"

Intensities(w) == [i \in 1..Len(w) |-> w[i].intensity]
OnlyLaughter(w) == w # <<>> /\ \A i \in 1..Len(w) : w[i].type = "LAUGHTER"

\* C12: a window of LAUGHTER events only, summing to more than 0.7, gives
\* dominantEmotion = LAUGHTER, emotionIntensities = {LAUGHTER: that sum},
\* overallEngagement = 1.5 x the mean intensity and shouldAdjustTiming = true;
\* intensities 0.9, 0.8, 0.85 give 2.55, 1.275 and true.
C12_LaughterOnlyWindow ==
  /\ (OnlyLaughter(recentEmotions) /\ SumAt(recentEmotions, DOMAIN recentEmotions) > 70) =>
       LET total == SumAt(recentEmotions, DOMAIN recentEmotions)
       IN /\ metrics.dominantEmotion = "LAUGHTER"
          /\ metrics.emotionIntensities = <<[key |-> "LAUGHTER", value |-> total]>>
          /\ 10 * Len(recentEmotions) * metrics.overallEngagement.num =
               15 * total * 10 * metrics.overallEngagement.den
          /\ shouldAdjustTiming(metrics)
  /\ (OnlyLaughter(recentEmotions) /\ Intensities(recentEmotions) = <<90, 80, 85>>) =>
       /\ metrics.emotionIntensities = <<[key |-> "LAUGHTER", value |-> 255]>>
       /\ metrics.overallEngagement = [num |-> 1275, den |-> 1]
       /\ shouldAdjustTiming(metrics)

\* The window holds LAUGHTER events of 0.9, 0.8 and 0.85.
C12_Witness ==
  /\ OnlyLaughter(recentEmotions)
  /\ Intensities(recentEmotions) = <<90, 80, 85>>
  /\ shouldAdjustTiming(metrics)

\* C13: with no LAUGHTER event in the window shouldAdjustTiming is false, also
\* when LAUGHTER is still the dominantEmotion of an emptied window; a window of
\* one SILENCE event of 0.6 gives SILENCE, engagement 0.3 and false.
C13_NoLaughterNoAdjustment ==
  /\ IndicesOf(recentEmotions, "LAUGHTER") = {} => ~shouldAdjustTiming(metrics)
  /\ (Len(recentEmotions) = 1 /\ recentEmotions[1].type = "SILENCE"
        /\ recentEmotions[1].intensity = 60) =>
       /\ metrics.dominantEmotion = "SILENCE"
       /\ metrics.overallEngagement = [num |-> 300, den |-> 1]
       /\ ~shouldAdjustTiming(metrics)

\* The window was emptied by pruning while LAUGHTER was dominant: LAUGHTER is
\* still the dominantEmotion and the decision is false.
C13_Witness ==
  /\ recentEmotions = <<>>
  /\ lastUpdate >= 10000
  /\ metrics.dominantEmotion = "LAUGHTER"
  /\ ~shouldAdjustTiming(metrics)

\* a < b for two fractions with positive denominators.
FracLess(a, b) == a.num * b.den < b.num * a.den

\* C14: replacing one SILENCE event of the window by a LAUGHTER event with the
\* same intensity, timestamp, source and confidence strictly increases
\* overallEngagement.
C14_LaughterForSilenceIncreases ==
  \A i \in IndicesOf(recentEmotions, "SILENCE") :
    FracLess(metrics.overallEngagement,
             calculateEngagement([recentEmotions EXCEPT ![i].type = "LAUGHTER"]))

\* A window of several events, one of them SILENCE and another LAUGHTER.
C14_Witness ==
  /\ Len(recentEmotions) >= 3
  /\ IndicesOf(recentEmotions, "SILENCE") # {}
  /\ IndicesOf(recentEmotions, "LAUGHTER") # {}

\* C15: while no session has been started shouldAdjustTiming is false, the
\* snapshot is the default one, and no frame submitted to processFrame has
\* started a classification call or changed the window or the history.
C15_NoSessionNoEffect ==
  currentPerformance = NoPerformance =>
    /\ metrics = InitialMetrics
    /\ ~shouldAdjustTiming(metrics)
    /\ recentEmotions = <<>>
    /\ lastUpdate = -1
    /\ \A f \in FrameIds : frames[f] = FreeFrame

\* No session yet, although the model is loaded and time has passed, so that
\* frames could have been classified.
C15_Witness ==
  /\ currentPerformance = NoPerformance
  /\ modelState = "loaded"
  /\ now >= TickStep
  /\ ENABLED processFrameNoPerformance

\* C16: the history, the window and the snapshot change only in the step in
\* which all three calls of a frame have completed (or, for the history, when a
\* session starts); that step appends audio events, then video events, then
\* chat events to the history and passes the same list to the update, and a
\* resolved frame never takes effect again.
C16_JoinThenChannelOrder ==
  [][ /\ (recentEmotions' # recentEmotions \/ metrics' # metrics) =>
           \E f \in FrameIds : Resolves(f)
      /\ History' # History =>
           (History' = <<>> \/ \E f \in FrameIds : Resolves(f))
      /\ \A f \in FrameIds :
           /\ Resolves(f) =>
                LET list == frames[f].audio.events \o frames[f].video.events
                              \o frames[f].chat.events
                    u == updateMetrics(recentEmotions, metrics, list, now)
                IN /\ frames[f].audio.st = "ok"
                   /\ frames[f].video.st = "ok"
                   /\ frames[f].chat.st = "ok"
                   /\ History' = History \o list
                   /\ recentEmotions' = u.window
                   /\ metrics' = u.metrics
           /\ frames[f].state = "resolved" => frames'[f].state = "resolved"
    ]_vars

\* The chat call completed before the audio call, and the history still lists
\* the audio event first.
C16_Witness ==
  \E i, j \in 1..Len(History) :
    /\ i < j
    /\ History[i].source = "audio"
    /\ History[j].source = "chat"
    /\ History[i].timestamp > History[j].timestamp

ClassOrder == <<"LAUGHTER", "APPLAUSE", "SILENCE", "DISAPPROVAL", "EXCITEMENT">>
AboveHalf(p) == {i \in 1..Len(p) : 2 * p[i] > 100}

\* events is what the claim says a classification of row p on a channel emits.
EmitsOnePerClass(events, p, source) ==
  /\ Len(events) = Cardinality(AboveHalf(p))
  /\ \A i \in AboveHalf(p) :
       Cardinality({k \in 1..Len(events) : events[k].type = ClassOrder[i]}) = 1
  /\ \A k \in 1..Len(events) :
       \E i \in AboveHalf(p) :
         /\ events[k].type = ClassOrder[i]
         /\ events[k].intensity = p[i]
         /\ events[k].confidence = p[i]
         /\ events[k].source = source

\* C17: an audio or video classification emits exactly one event for every
\* class whose probability exceeds 0.5 (any number from none to all five), with
\* intensity = confidence = that probability, the type of the class index and
\* the channel as source.
C17_OneEventPerClassAboveHalf ==
  /\ \A f \in FrameIds, source \in {"audio", "video"} :
       frames[f][source].st = "ok" =>
         \E p \in Predictions : EmitsOnePerClass(frames[f][source].events, p, source)
  /\ \A p \in MetricsPredictions \cup {<<60, 70, 80, 90, 99>>},
        source \in {"audio", "video"} :
       EmitsOnePerClass(processEmotionPredictions(p, source, now), p, source)

\* A video classification has emitted two events, of different types.
C17_Witness ==
  \E f \in FrameIds :
    /\ frames[f].video.st = "ok"
    /\ Len(frames[f].video.events) = 2
    /\ frames[f].video.events[1].type # frames[f].video.events[2].type

\* The snapshot is the one the last completed update computed: the default one
\* before any update, afterwards the values of the window that update left.
SnapshotOfLastUpdate ==
  IF lastUpdate = -1
  THEN metrics = InitialMetrics /\ recentEmotions = <<>>
  ELSE /\ metrics.overallEngagement = calculateEngagement(recentEmotions)
       /\ metrics.recentTrend = calculateTrend(recentEmotions)
       /\ metrics.emotionIntensities = emotionCounts(recentEmotions)
       /\ \A i \in 1..Len(recentEmotions) :
            lastUpdate - recentEmotions[i].timestamp < 10000

\* C18: getRealtimeMetrics and shouldAdjustTiming can be taken in every state,
\* also while processFrame calls are suspended; what they read is the snapshot
\* of the last completed update; and a step of either changes no variable.
C18_ReadsAreImmediateAndPure ==
  /\ [](ENABLED getRealtimeMetrics /\ ENABLED shouldAdjustTimingCall)
  /\ []SnapshotOfLastUpdate
  /\ [][(getRealtimeMetrics \/ shouldAdjustTimingCall) => UNCHANGED vars]_vars

\* One frame has been processed; a second one is suspended with its audio
\* events already returned, and the window holds an event older than 10 s.
C18_Witness ==
  /\ \E f \in FrameIds : frames[f].state = "resolved"
  /\ \E f \in FrameIds : frames[f].state = "pending" /\ frames[f].audio.events # <<>>
  /\ \E i \in 1..Len(recentEmotions) : now - recentEmotions[i].timestamp >= 10000
  /\ metrics # InitialMetrics

\* C19: an update that leaves the window empty sets overallEngagement to 0 and
\* the trend to stable and keeps the dominantEmotion of the snapshot before it;
\* before any update that value is SILENCE.
C19_EmptyWindowUpdate ==
  [][ /\ lastUpdate = -1 => metrics.dominantEmotion = "SILENCE"
      /\ (now' = now /\ recentEmotions' = <<>>) =>
           /\ metrics'.overallEngagement = [num |-> 0, den |-> 1]
           /\ metrics'.recentTrend = "stable"
           /\ metrics'.dominantEmotion = metrics.dominantEmotion
           /\ metrics'.emotionIntensities = <<>>
    ]_vars

\* An update at 10 s has pruned the last event of a window in which EXCITEMENT
\* was dominant.
C19_Witness ==
  /\ recentEmotions = <<>>
  /\ lastUpdate = MaxTicks * TickStep
  /\ metrics.dominantEmotion = "EXCITEMENT"
  /\ metrics.overallEngagement = [num |-> 0, den |-> 1]
  /\ metrics.recentTrend = "stable"

\* C20 as stated: whenever the window holds no events, dominantEmotion is
\* SILENCE.
C20_EmptyWindowIsSilence ==
  recentEmotions = <<>> => metrics.dominantEmotion = "SILENCE"

\* C20, amended: while the window holds no events, dominantEmotion is the value
\* it had before the window emptied; it is SILENCE as long as no update has
\* been made.
C20_EmptyWindowKeepsDominant ==
  [][ /\ (recentEmotions = <<>> /\ lastUpdate = -1) =>
           metrics.dominantEmotion = "SILENCE"
      /\ recentEmotions' = <<>> =>
           metrics'.dominantEmotion = metrics.dominantEmotion
    ]_vars

\* The window has been emptied by an update and LAUGHTER, which no window
\* event and no emotionIntensities entry supports, is still dominant.
C20_Witness ==
  /\ recentEmotions = <<>>
  /\ lastUpdate > 0
  /\ metrics.emotionIntensities = <<>>
  /\ metrics.dominantEmotion = "LAUGHTER"

IsPrefix(s, t) == Len(s) <= Len(t) /\ SubSeq(t, 1, Len(s)) = s

\* C21: within a session the history only grows (a step either starts a session
\* with an empty history or extends the history at its end; pruning and failed
\* frames remove nothing), so every event in the window is in the history of
\* the session.
C21_HistoryOnlyGrows ==
  [][ /\ History' = <<>> \/ IsPrefix(History, History')
      /\ AllEvents(recentEmotions') \subseteq AllEvents(History')
    ]_vars

\* C22: the window is in time order: an event at a lower index has a timestamp
\* less than or equal to that of every event at a higher index.
C22_WindowInTimeOrder ==
  \A i, j \in 1..Len(recentEmotions) :
    i < j => recentEmotions[i].timestamp <= recentEmotions[j].timestamp

\* The snapshot after two further updates at the current time, the first with
\* the events of row p and the second with those of row q.
SnapshotAfter(p, q) ==
  LET u1 == updateMetrics(recentEmotions, metrics,
                          processEmotionPredictions(p, "audio", now), now)
  IN updateMetrics(u1.window, u1.metrics,
                   processEmotionPredictions(q, "audio", now), now).metrics

\* A Map as a mapping, without the insertion order of its keys.
Entries(m) == {<<m[i].key, m[i].value>> : i \in 1..Len(m)}

\* Both orders of the two updates are behaviours of the aggregator.
BothOrdersFit(p, q) ==
  Len(recentEmotions) + Len(processEmotionPredictions(p, "audio", now))
    + Len(processEmotionPredictions(q, "audio", now)) <= MaxWindow

\* C23 as stated: two runs that processed the same events and made their last
\* update at the same time have the same overallEngagement, emotionIntensities,
\* dominantEmotion and trend, whatever the insertion order (here: the runs
\* continue the current one with the same two updates in either order).
C23_SnapshotOfEventSet ==
  \A p, q \in MetricsPredictions :
    BothOrdersFit(p, q) =>
      LET a == SnapshotAfter(p, q)
          b == SnapshotAfter(q, p)
      IN /\ a.overallEngagement = b.overallEngagement
         /\ Entries(a.emotionIntensities) = Entries(b.emotionIntensities)
         /\ a.dominantEmotion = b.dominantEmotion
         /\ a.recentTrend = b.recentTrend

\* The pairs of different prediction rows.
RowPairs == {pq \in SUBSET MetricsPredictions : Cardinality(pq) = 2}

\* C23, amended: overallEngagement and emotionIntensities are the same for
\* both insertion orders; dominantEmotion (first maximum) and trend (positional
\* halves) are not covered.
C23_EngagementAndIntensitiesOfEventSet ==
  LET first == [p \in MetricsPredictions |->
                  updateMetrics(recentEmotions, metrics,
                                processEmotionPredictions(p, "audio", now), now)]
      then(u, q) == updateMetrics(u.window, u.metrics,
                                  processEmotionPredictions(q, "audio", now), now).metrics
  IN \A pq \in RowPairs :
       LET p == CHOOSE x \in pq : TRUE
           q == CHOOSE x \in pq \ {p} : TRUE
           a == then(first[p], q)
           b == then(first[q], p)
       IN BothOrdersFit(p, q) =>
            /\ a.overallEngagement = b.overallEngagement
            /\ Entries(a.emotionIntensities) = Entries(b.emotionIntensities)

\* After an update, two further updates whose order changes the trend but not
\* the engagement or the intensities.
C23_Witness ==
  /\ lastUpdate >= 0
  /\ recentEmotions # <<>>
  /\ \E p, q \in MetricsPredictions :
       /\ BothOrdersFit(p, q)
       /\ SnapshotAfter(p, q).recentTrend # SnapshotAfter(q, p).recentTrend
       /\ SnapshotAfter(p, q).overallEngagement = SnapshotAfter(q, p).overallEngagement
       /\ SnapshotAfter(p, q).overallEngagement.num > 0

\* C24: the window and the snapshot change only in the step of a successful
\* processFrame; the passage of time alone changes neither, so the decision
\* can be true while every LAUGHTER event it counts is 10000 ms old or older.
C24_PrunedOnlyByUpdates ==
  [][ /\ now' # now => UNCHANGED <<recentEmotions, metrics>>
      /\ (\A f \in FrameIds : ~Resolves(f)) => UNCHANGED <<recentEmotions, metrics>>
    ]_vars

\* shouldAdjustTiming is true and every LAUGHTER event of the window has
\* already left the 10 s retention period.
C24_Witness ==
  /\ shouldAdjustTiming(metrics)
  /\ IndicesOf(recentEmotions, "LAUGHTER") # {}
  /\ \A i \in IndicesOf(recentEmotions, "LAUGHTER") :
       now - recentEmotions[i].timestamp >= TREND_WINDOW * 1000

\* C25: the history of a performance holds only events of frames submitted
\* while it was the current one.  The classification calls of such a frame run
\* after the performance has started, so none of its events is stamped earlier
\* than the performance's startTime; that consequence is what is stated here.
C25_HistoryOfOwnFramesOnly ==
  \A i \in 1..Len(History) :
    History[i].timestamp >= currentPerformance.startTime

\* The snapshot is the one computed from the window as it is: running the
\* recomputation again at the time of the last update changes nothing.
SnapshotMatchesWindow ==
  LET u == updateMetrics(recentEmotions, metrics, <<>>, lastUpdate)
  IN /\ u.window = recentEmotions
     /\ u.metrics = metrics

\* C26: updates never interleave: in every state, also with several
\* processFrame calls overlapping, the snapshot is the one recomputed from the
\* window as it stands, and the step in which one frame's update and history
\* append run touches no other frame.
C26_UpdatesAreAtomic ==
  /\ []SnapshotMatchesWindow
  /\ [][\A f \in FrameIds :
          Resolves(f) => \A g \in FrameIds \ {f} : frames'[g] = frames[g]]_vars

\* Two processFrame calls overlap: the one submitted later has been applied,
\* the earlier one has all its results and is about to be applied to a window
\* that already holds events.
C26_Witness ==
  \E f, g \in FrameIds :
    /\ f < g
    /\ frames[g].state = "resolved"
    /\ frames[f].state = "pending"
    /\ frames[f].audio.st = "ok" /\ frames[f].video.st = "ok"
    /\ frames[f].chat.st = "ok"
    /\ allEmotions(f) # <<>>
    /\ recentEmotions # <<>>
    /\ lastUpdate = now

EqualIntensities(w) ==
  \A i, j \in 1..Len(w) : w[i].intensity = w[j].intensity

\* C27: a window of exactly one event (of intensity > 0.5) has trend rising; a
\* window of an odd number of events of equal intensity has trend rising; a
\* window of an even number of events of equal intensity has trend stable.
C27_OddWindowRises ==
  /\ Len(recentEmotions) = 1 =>
       /\ recentEmotions[1].intensity > 50
       /\ metrics.recentTrend = "rising"
  /\ (EqualIntensities(recentEmotions) /\ Len(recentEmotions) % 2 = 1) =>
       metrics.recentTrend = "rising"
  /\ (EqualIntensities(recentEmotions) /\ recentEmotions # <<>>
        /\ Len(recentEmotions) % 2 = 0) =>
       metrics.recentTrend = "stable"

\* Three events of equal intensity: the second part of the split holds two.
C27_Witness ==
  /\ Len(recentEmotions) = 3
  /\ EqualIntensities(recentEmotions)
  /\ metrics.recentTrend = "rising"

\* C28: when a frame's update runs, each of its events that is 10000 ms old or
\* older is appended to the history but is not in the window, and each of its
\* other events is in the window right after the update; no window event is
\* ever 10000 ms older than the update that last computed the snapshot.
C28_StaleOnArrival ==
  [][ /\ \A f \in FrameIds :
           Resolves(f) =>
             LET list == frames[f].audio.events \o frames[f].video.events
                           \o frames[f].chat.events
             IN \A k \in 1..Len(list) :
                  /\ list[k] \in AllEvents(History')
                  /\ IF now - list[k].timestamp >= 10000
                     THEN list[k] \notin AllEvents(recentEmotions')
                     ELSE list[k] \in AllEvents(recentEmotions')
      /\ \A i \in 1..Len(recentEmotions') :
           lastUpdate' - recentEmotions'[i].timestamp < 10000
    ]_vars

\* The only frame processed so far had an event that was 10 s old when the
\* frame's update ran: it is in the history, not in the window, which holds
\* the frame's later events.
C28_Witness ==
  /\ frames[1].state = "resolved"
  /\ \A f \in FrameIds \ {1} : frames[f].state = "free"
  /\ recentEmotions # <<>>
  /\ \E i \in 1..Len(History) :
       /\ lastUpdate - History[i].timestamp >= 10000
       /\ History[i] \notin AllEvents(recentEmotions)

\* C29: with overlapping processFrame calls nothing is lost or duplicated: the
\* step that completes the join of frame f extends the history by exactly f's
\* events, whatever the submission order of f and the frames still suspended,
\* leaves the results of those frames as they are, and f is never applied
\* again; the history changes in no other step except a session start.
C29_OverlapLosesNothing ==
  [][ /\ \A f \in FrameIds :
           /\ Resolves(f) =>
                /\ Len(History') = Len(History) + Len(frames[f].audio.events)
                     + Len(frames[f].video.events) + Len(frames[f].chat.events)
                /\ IsPrefix(History, History')
                /\ SubSeq(History', Len(History) + 1, Len(History')) =
                     frames[f].audio.events \o frames[f].video.events
                       \o frames[f].chat.events
                /\ \A g \in FrameIds \ {f} :
                     /\ frames'[g] = frames[g]
                     /\ ~Resolves(g)
           /\ frames[f].state \in {"resolved", "rejected"} => frames'[f] = frames[f]
      /\ (\A f \in FrameIds : ~Resolves(f)) =>
           (History' = History \/ History' = <<>>)
    ]_vars

\* The frame submitted second has been applied and its events are in the
\* history; the frame submitted first is still suspended with events of its
\* own, which will follow them.
C29_Witness ==
  \E f, g \in FrameIds :
    /\ f < g
    /\ frames[g].state = "resolved"
    /\ frames[f].state = "pending"
    /\ frames[f].audio.events # <<>>
    /\ History # <<>>
    /\ fresh = FALSE

\* C30: while the emotion model is not loaded (still loading, or failed) no
\* audio or video classification call has succeeded and no frame has been
\* applied: window, history and snapshot are as constructed, whatever chat
\* events are in flight; a frame's join completes only with the model loaded.
C30_NoSuccessWithoutModel ==
  /\ [](modelState # "loaded" =>
          /\ \A f \in FrameIds :
               /\ frames[f].state # "resolved"
               /\ frames[f].audio.st # "ok"
               /\ frames[f].video.st # "ok"
          /\ recentEmotions = <<>>
          /\ History = <<>>
          /\ metrics = InitialMetrics)
  /\ [][\A f \in FrameIds : Resolves(f) => modelState = "loaded"]_vars

\* Loading has failed: one frame has failed, another is suspended with chat
\* events that cannot take effect.
C30_Witness ==
  /\ modelState = "failed"
  /\ currentPerformance # NoPerformance
  /\ \E f \in FrameIds : frames[f].state = "rejected"
  /\ \E f \in FrameIds :
       frames[f].state = "pending" /\ frames[f].chat.events # <<>>

Settled(f) == frames[f].state \in {"resolved", "rejected"}
SomeCallRunning(f) == \E source \in Sources : frames[f][source].st = "running"

\* C31: a processFrame call on a started session completes (resolves or
\* rejects) once each of its classification calls completes; a call that is
\* running can fail at any moment and its failure rejects the frame in the
\* same step, whatever the other calls are doing; and a frame with a call
\* still running leaves the join only by such a failure, so it stays suspended
\* for as long as that call neither returns nor fails.
C31_JoinCompletion ==
  /\ \A f \in FrameIds : (frames[f].state = "pending") ~> Settled(f)
  /\ [](\A f \in FrameIds, source \in Sources :
          (frames[f].state = "pending" /\ frames[f][source].st = "running") =>
            ENABLED (classificationFails(f, source) /\ Rejects(f)))
  /\ [][\A f \in FrameIds :
          (frames[f].state = "pending" /\ SomeCallRunning(f)) =>
            \/ frames'[f].state = "pending"
            \/ Rejects(f) /\ ~(\A source \in Sources : frames'[f][source].st = "ok")
       ]_vars

\* One frame has failed while the other, submitted later, has completed.
C31_Witness ==
  \E f, g \in FrameIds :
    /\ frames[f].state = "rejected"
    /\ frames[g].state = "resolved"
    /\ History # <<>>

\* C32: a frame that succeeds with no events leaves the history unchanged but
\* still runs an update: the window loses exactly the events that are 10000 ms
\* old or older, and engagement, intensities and trend are recomputed from
\* what is left (0, no entries and stable when nothing is left).
C32_EmptyFrameStillUpdates ==
  [][\A f \in FrameIds :
       (/\ Resolves(f)
        /\ frames[f].audio.events = <<>>
        /\ frames[f].video.events = <<>>
        /\ frames[f].chat.events = <<>>) =>
         /\ History' = History
         /\ recentEmotions' =
              SelectSeq(recentEmotions, LAMBDA e : now - e.timestamp < 10000)
         /\ metrics'.overallEngagement = calculateEngagement(recentEmotions')
         /\ metrics'.emotionIntensities = emotionCounts(recentEmotions')
         /\ metrics'.recentTrend = calculateTrend(recentEmotions')
         /\ recentEmotions' = <<>> =>
              /\ metrics'.overallEngagement = [num |-> 0, den |-> 1]
              /\ metrics'.emotionIntensities = <<>>
              /\ metrics'.recentTrend = "stable"
    ]_vars

\* Two frames have succeeded and the history holds a single event, so one of
\* them had no events; the update at 10 s has emptied the window and reset
\* engagement and intensities.
C32_Witness ==
  /\ \A f \in {1, 2} : frames[f].state = "resolved"
  /\ Len(History) = 1
  /\ History[1].timestamp = 0
  /\ lastUpdate = 2 * TickStep
  /\ recentEmotions = <<>>
  /\ metrics.overallEngagement = [num |-> 0, den |-> 1]
  /\ metrics.emotionIntensities = <<>>

\* C33: audienceSize is 0 in every reachable state and no step of the engine
\* (session start, frame begin, call completion, aggregator update, the two
\* reads, the clock) changes it.
C33_AudienceSizeStaysZero ==
  /\ [](metrics.audienceSize = 0)
  /\ [][metrics'.audienceSize = metrics.audienceSize]_vars

\* A session started after time 0 is running and a frame's update has
\* replaced every other field of the snapshot, while audienceSize is still 0.
C33_Witness ==
  /\ metrics.audienceSize = 0
  /\ currentPerformance # NoPerformance
  /\ currentPerformance.startTime > 0
  /\ Len(recentEmotions) >= 2
  /\ metrics.overallEngagement.num > 0
  /\ metrics.emotionIntensities # <<>>
  /\ metrics.recentTrend # "stable"
  /\ \E f \in FrameIds : frames[f].state = "resolved"

\* C34: a classifier is invoked only in the step that submits a new frame, once
\* per channel: a call that is not running starts running only when its frame
\* goes from free to pending; the step in which a call fails starts no call;
\* and a failed frame is never touched again, so its calls are not reissued.
C34_NoRetry ==
  [][\A f \in FrameIds :
       /\ \A source \in Sources :
            (frames[f][source].st # "running" /\ frames'[f][source].st = "running") =>
              (frames[f].state = "free" /\ frames'[f].state = "pending")
       /\ Rejects(f) =>
            \A g \in FrameIds, source \in Sources :
              frames'[g][source].st = "running" => frames[g][source].st = "running"
       /\ frames[f].state = "rejected" => frames'[f] = frames[f]
    ]_vars

\* The first frame of a session has failed, time has passed, no call is
\* running and the next frame has not been submitted.
C34_Witness ==
  /\ frames[1].state = "rejected"
  /\ frames[2].state = "free"
  /\ \A f \in FrameIds, source \in Sources : frames[f][source].st # "running"
  /\ currentPerformance # NoPerformance
  /\ now > 0

====
